---------------------------- MODULE Spec2Model ----------------------------
(***************************************************************************)
(* A model of the document conversion core of docx-converter               *)
(* (src/src/converter.py): TextNormalizer, DocumentProcessor and           *)
(* MessageConverter.                                                       *)
(*                                                                         *)
(* A Python str is a sequence of characters; a character is a short ASCII  *)
(* token.  Whitespace is "SP" (space), "NL" (\n) and "TAB" (\t);           *)
(* "LB"/"RB" are the brackets U+3010/U+3011, "FC" is the full-width colon  *)
(* U+FF1A, "FEQ" the full-width equals sign U+FF1D, "LP"/"RP" the          *)
(* full-width parentheses U+FF08/U+FF09.  Kanji and kana are written by a  *)
(* reading, one token per character (bu sho = U+90E8 U+7F72, and so on);   *)
(* the tables below give the word each sequence stands for.                *)
(***************************************************************************)
EXTENDS Integers, Sequences, FiniteSets, TLC

VARIABLES
    arg,      \* the input of the pure function under study
    res,      \* the sequence of results computed from arg so far
    stage,    \* how many applications have been made: "in", "once", "twice"
    selected_columns,  \* MessageConverter.selected_columns
    errors,            \* DocumentProcessor.errors: a reference to a list
    lists,             \* the heap of error lists: reference -> contents
    pc,                \* per caller: "off", "idle", "loop" (inside
                       \* process_documents), "done" (it has returned)
    documents,         \* per caller: the argument of process_documents
    idx,               \* per caller: the number of documents processed
    processed_docs,    \* per caller: the local list processed_docs
    ret,               \* per caller: the pair process_documents returned
    own,               \* per caller: the entries this call appended (history)
    overlapped,        \* per caller: another call ran during this one (history)
    earlier            \* an earlier, finished call recorded errors (history)

fvars == <<arg, res, stage>>

bvars == <<selected_columns, errors, lists, pc, documents, idx, processed_docs,
           ret, own, overlapped, earlier>>

vars == <<fvars, bvars>>

---------------------------------------------------------------------------
(* Python str helpers *)

IsSpace(c) == c \in {"SP", "NL", "TAB"}

IsDigit(c) == c \in {"0", "1", "2", "3", "4", "5", "6", "7", "8", "9"}

RECURSIVE FirstNonSpace(_, _)
FirstNonSpace(s, i) ==
    IF i > Len(s) THEN i
    ELSE IF IsSpace(s[i]) THEN FirstNonSpace(s, i + 1) ELSE i

RECURSIVE LastNonSpace(_, _)
LastNonSpace(s, i) ==
    IF i < 1 THEN i
    ELSE IF IsSpace(s[i]) THEN LastNonSpace(s, i - 1) ELSE i

\* str.strip()
Strip(s) == SubSeq(s, FirstNonSpace(s, 1), LastNonSpace(s, Len(s)))

\* str.startswith / str.endswith
StartsWith(s, p) == Len(p) <= Len(s) /\ SubSeq(s, 1, Len(p)) = p

EndsWith(s, p) == Len(p) <= Len(s) /\ SubSeq(s, Len(s) - Len(p) + 1, Len(s)) = p

\* c in s
Contains(s, c) == \E i \in 1..Len(s) : s[i] = c

\* the n-fold repetition of the string s  (s * n)
RECURSIVE Repeat(_, _)
Repeat(s, n) ==
    IF n <= 0 THEN <<>>
    ELSE IF n = 1 THEN s
    ELSE LET h == Repeat(s, n \div 2)
         IN  IF n % 2 = 0 THEN h \o h ELSE h \o h \o s

\* sep.join(parts)
RECURSIVE Join(_, _)
Join(parts, sep) ==
    IF parts = <<>> THEN <<>>
    ELSE IF Len(parts) = 1 THEN parts[1]
    ELSE parts[1] \o sep \o Join(Tail(parts), sep)

\* the index of the first c in s at or after position i, or 0
Find(s, c, i) ==
    LET hits == {k \in i..Len(s) : s[k] = c}
    IN  IF hits = {} THEN 0 ELSE CHOOSE k \in hits : \A q \in hits : k <= q

\* s.split(c): the pieces of s between the occurrences of c
RECURSIVE Split(_, _)
Split(s, c) ==
    LET j == Find(s, c, 1)
    IN  IF j = 0 THEN <<s>>
        ELSE <<SubSeq(s, 1, j - 1)>> \o Split(SubSeq(s, j + 1, Len(s)), c)

\* s.split(): the whitespace-delimited words of s
RECURSIVE Words(_)
Words(s) ==
    LET a == FirstNonSpace(s, 1)
    IN  IF a > Len(s) THEN <<>>
        ELSE LET sp == {i \in a..Len(s) : IsSpace(s[i])}
                 b  == IF sp = {} THEN Len(s) + 1
                       ELSE CHOOSE i \in sp : \A j \in sp : i <= j
             IN  <<SubSeq(s, a, b - 1)>> \o Words(SubSeq(s, b, Len(s)))

---------------------------------------------------------------------------
(* TextNormalizer *)

\* re.sub(r'\s+', ' ', s): every run of whitespace becomes one space
CollapseSpace(s) ==
    LET marked == [i \in 1..Len(s) |->
                     IF IsSpace(s[i])
                     THEN IF i > 1 /\ IsSpace(s[i - 1]) THEN "DROP" ELSE "SP"
                     ELSE s[i]]
    IN  SelectSeq(marked, LAMBDA c : c # "DROP")

\* TextNormalizer.clean_text on a str
clean_text(text) ==
    IF text = <<>> THEN <<>>
    ELSE SelectSeq(CollapseSpace(Strip(text)), LAMBDA c : c \notin {"NL", "TAB"})

---------------------------------------------------------------------------
(* MessageConverter._normalize_column_name *)

\* the column names the code names literally
BUSHO  == <<"bu", "sho">>                 \* department
NAMAE  == <<"mei", "mae">>                \* name
GENKOU == <<"hara", "kou">>               \* body (manuscript)
KIKAKU == <<"ki", "kaku">>                \* project
KIKAKUMEI == <<"ki", "kaku", "mei">>      \* project name
BANGOU == <<"ban", "gou">>                \* identifier (number)
SHIMEKIRI == <<"shime", "kiri">>          \* deadline

prefixes == << BUSHO, <<"o">>, <<"sqB">>, <<"sqW">>, <<"cirB">>, <<"kome">> >>

suffixes ==
    << <<"nakaten", "koto", "gyou", "jo", "mei">>,   \* ...office name
       <<"no", "nai", "you">>,                        \* 's content
       <<"ni", "tsu", "i", "te">>,                    \* about
       <<"no", "o", "negai", "i">>,                   \* request
       <<"FC">>, <<":">>, <<"ran">> >>

mapping ==
    << <<KIKAKUMEI, KIKAKU>>,
       <<SHIMEKIRI \o <<"hi">>, SHIMEKIRI>>,
       << <<"mon", "ji", "suu">>, <<"mon", "ji", "sei", "kagiri">> >>,
       << <<"me", "xtsu", "se", "choon", "zi">>, GENKOU>>,
       << <<"hon", "mon">>, GENKOU>>,
       << <<"shi", "mei">>, NAMAE>>,
       << <<"fu", "ri", "ga", "na">>, NAMAE>>,
       << <<"jo", "zoku">>, BUSHO>>,
       << <<"koto", "gyou", "jo">>, BUSHO>> >>

\* for prefix in prefixes: if name.startswith(prefix): name = name[len(prefix):]
RECURSIVE StripPrefixes(_, _)
StripPrefixes(name, ps) ==
    IF ps = <<>> THEN name
    ELSE StripPrefixes(
             IF StartsWith(name, Head(ps))
             THEN SubSeq(name, Len(Head(ps)) + 1, Len(name)) ELSE name,
             Tail(ps))

\* for suffix in suffixes: if name.endswith(suffix): name = name[:-len(suffix)]
RECURSIVE StripSuffixes(_, _)
StripSuffixes(name, ss) ==
    IF ss = <<>> THEN name
    ELSE StripSuffixes(
             IF EndsWith(name, Head(ss))
             THEN SubSeq(name, 1, Len(name) - Len(Head(ss))) ELSE name,
             Tail(ss))

\* mapping.get(name, name)
MappingGet(name) ==
    IF \E i \in 1..Len(mapping) : mapping[i][1] = name
    THEN mapping[CHOOSE i \in 1..Len(mapping) : mapping[i][1] = name][2]
    ELSE name

_normalize_column_name(name) ==
    MappingGet(Strip(StripSuffixes(StripPrefixes(Strip(name), prefixes), suffixes)))

---------------------------------------------------------------------------
(* MessageConverter._extract_main_content *)

MinChunkLen == 20      \* process_chunk: len(text) >= 20
MinCellLen == 20       \* a table cell is a candidate when len(cell) >= 20
MinBodyLen == 150      \* len(main_content) < 150
MaxBodyLen == 200      \* len(main_content) > 200

NEEDS_MORE == <<"LP", "kaname", "tsui", "shirusu", "RP">>          \* the marker (needs more)
EXCEEDS == <<"LP", "mon", "ji", "suu", "chou", "ka", "RP">>        \* the marker (over the limit)

\* re.match(r'^[\d\s]+$', text)
IsDigitsOnly(text) ==
    text # <<>> /\ \A i \in 1..Len(text) : IsDigit(text[i]) \/ IsSpace(text[i])

\* re.match(r'^[-=(FEQ)]+$', line)
IsSeparatorLine(line) ==
    line # <<>> /\ \A i \in 1..Len(line) : line[i] \in {"-", "=", "FEQ"}

\* '|' in line or line.startswith('+-')
IsTableLine(line) == Contains(line, "|") \/ StartsWith(line, <<"+", "-">>)

\* the test of process_chunk without the lower length bound
QualifyingChunk_nolen(t) ==
    IF Len(t) >= 1 /\ ~IsDigitsOnly(t) THEN <<t>> ELSE <<>>

\* the test of process_chunk on the cleaned text: the list holding it when it
\* qualifies, else the empty list
QualifyingChunk(t) ==
    IF Len(t) >= MinChunkLen /\ ~IsDigitsOnly(t) THEN <<t>> ELSE <<>>

process_chunk(text) == QualifyingChunk(clean_text(text))

\* the candidate a stripped table cell contributes
CellChunk(cell) == IF Len(cell) >= MinCellLen THEN process_chunk(cell) ELSE <<>>

\* the candidates contributed by the cells of a table line
RECURSIVE CellChunks(_)
CellChunks(cells) ==
    IF cells = <<>> THEN <<>>
    ELSE CellChunk(Strip(Head(cells))) \o CellChunks(Tail(cells))

\* close the current chunk: its candidate, if it qualifies
FlushChunk(current_chunk) ==
    IF current_chunk # <<>> THEN process_chunk(Join(current_chunk, <<"SP">>)) ELSE <<>>

\* the loop state with the current chunk closed
Flushed(st, in_table) ==
    [chunks |-> st.chunks \o FlushChunk(st.current_chunk),
     current_chunk |-> <<>>,
     in_table |-> in_table]

\* the body of the loop on the stripped line
ChunkStepOn(st, line) ==
    IF IsTableLine(line)
    THEN [Flushed(st, TRUE) EXCEPT
             !.chunks = @ \o (IF Contains(line, "|")
                              THEN CellChunks(Split(line, "|")) ELSE <<>>)]
    ELSE LET in_table == IF st.in_table THEN FALSE ELSE st.in_table
         IN  IF ~in_table /\ line # <<>>
             THEN [chunks |-> st.chunks,
                   current_chunk |-> IF ~IsSeparatorLine(line)
                                     THEN Append(st.current_chunk, line)
                                     ELSE st.current_chunk,
                   in_table |-> in_table]
             ELSE IF st.current_chunk # <<>>
             THEN Flushed(st, in_table)
             ELSE [st EXCEPT !.in_table = in_table]

\* one iteration of "for line in paragraphs" on the loop state st
ChunkStep(st, raw) == ChunkStepOn(st, Strip(raw))

RECURSIVE ChunkLoop(_, _)
ChunkLoop(st, paragraphs) ==
    IF paragraphs = <<>> THEN st
    ELSE ChunkLoop(ChunkStep(st, Head(paragraphs)), Tail(paragraphs))

\* all_text_chunks after the loop and the closing of the last chunk
all_text_chunks(paragraphs) ==
    Flushed(ChunkLoop([chunks |-> <<>>, current_chunk |-> <<>>, in_table |-> FALSE],
                      paragraphs),
            FALSE).chunks

\* the scan of max with a later chunk of equal length replacing the kept one
RECURSIVE LongestFrom_ge(_, _)
LongestFrom_ge(best, rest) ==
    IF rest = <<>> THEN best
    ELSE LongestFrom_ge(IF Len(Head(rest)) >= Len(best) THEN Head(rest) ELSE best,
                        Tail(rest))

\* the scan of the builtin max with key=len: the chunk kept so far is replaced
\* only by a chunk whose length is strictly greater
RECURSIVE LongestFrom(_, _)
LongestFrom(best, rest) ==
    IF rest = <<>> THEN best
    ELSE LongestFrom(IF Len(Head(rest)) > Len(best) THEN Head(rest) ELSE best,
                     Tail(rest))

\* max(all_text_chunks, key=len), called on a list that is not empty
main_content(chunks) == LongestFrom(Head(chunks), Tail(chunks))

\* the length check with the lower comparison off by one (<= for <)
LengthAnnotated_le(main) ==
    IF Len(main) <= MinBodyLen THEN main \o NEEDS_MORE
    ELSE IF Len(main) > MaxBodyLen THEN SubSeq(main, 1, MaxBodyLen) \o EXCEEDS
    ELSE main

\* the length check that ends _extract_main_content
LengthAnnotated(main) ==
    IF Len(main) < MinBodyLen THEN main \o NEEDS_MORE
    ELSE IF Len(main) > MaxBodyLen THEN SubSeq(main, 1, MaxBodyLen) \o EXCEEDS
    ELSE main

\* the end of _extract_main_content on the candidates collected
SelectedBody(chunks) ==
    IF chunks = <<>> THEN <<>> ELSE LengthAnnotated(main_content(chunks))

_extract_main_content(paragraphs) == SelectedBody(all_text_chunks(paragraphs))

---------------------------------------------------------------------------
(* MessageConverter.extract_potential_columns *)

IsColon(c) == c \in {"FC", ":"}

\* the index of the first colon (FC or ':') in s at or after position i, or 0
FindColon(s, i) ==
    LET hits == {k \in i..Len(s) : IsColon(s[k])}
    IN  IF hits = {} THEN 0 ELSE CHOOSE k \in hits : \A q \in hits : k <= q

\* re.findall(r'\|\s*([^|]+?)\s*(?:FC|\:)', content) from position p on: at each
\* '|' the greedy \s* runs to the first non-blank g; the lazy group runs from g to
\* the first colon after g, and may not cross a '|'.  When that fails and s[g]
\* is a colon preceded by whitespace, the group backtracks to that whitespace.
RECURSIVE TableHeaders(_, _)
TableHeaders(s, p) ==
    LET i == Find(s, "|", p)
    IN  IF i = 0 THEN <<>>
        ELSE LET g == FirstNonSpace(s, i + 1)
                 j == IF g > Len(s) THEN 0 ELSE FindColon(s, g + 1)
             IN  IF g <= Len(s) /\ s[g] # "|" /\ j # 0
                    /\ ~Contains(SubSeq(s, g, j - 1), "|")
                 THEN <<Strip(SubSeq(s, g, j - 1))>> \o TableHeaders(s, j + 1)
                 ELSE IF g <= Len(s) /\ IsColon(s[g]) /\ g > i + 1
                 THEN <<SubSeq(s, g - 1, g - 1)>> \o TableHeaders(s, g + 1)
                 ELSE TableHeaders(s, i + 1)

\* re.search(r'LB(.+?)RB', line).group(1): the first bracket that is closed at
\* least one character later, up to the first such closing; <<>> when none
RECURSIVE BracketSearch(_, _)
BracketSearch(line, p) ==
    LET i == Find(line, "LB", p)
    IN  IF i = 0 THEN <<>>
        ELSE LET j == Find(line, "RB", i + 2)
             IN  IF j # 0 THEN <<SubSeq(line, i + 1, j - 1)>>
                 ELSE BracketSearch(line, i + 1)

\* re.search(mark + r'\s*(.+?)\s*[:FC]', line).group(1) for a corner mark
RECURSIVE MarkerSearch(_, _, _)
MarkerSearch(line, mark, p) ==
    LET i == Find(line, mark, p)
    IN  IF i = 0 THEN <<>>
        ELSE LET g == FirstNonSpace(line, i + 1)
                 j == IF g > Len(line) THEN 0 ELSE FindColon(line, g + 1)
             IN  IF j # 0 THEN <<Strip(SubSeq(line, g, j - 1))>>
                 ELSE IF g <= Len(line) /\ IsColon(line[g]) /\ g > i + 1
                 THEN <<SubSeq(line, g - 1, g - 1)>>
                 ELSE MarkerSearch(line, mark, i + 1)

\* the matches of the four header_patterns on one line, in pattern order
HeaderMatches(line) ==
    BracketSearch(line, 1) \o MarkerSearch(line, "sqB", 1)
        \o MarkerSearch(line, "sqW", 1) \o MarkerSearch(line, "cirB", 1)

\* the names a list of raw matches adds: stripped, normalized, non-empty
NormalizedNames(matches) ==
    {_normalize_column_name(Strip(matches[k])) :
        k \in {n \in 1..Len(matches) :
                 /\ Strip(matches[n]) # <<>>
                 /\ _normalize_column_name(Strip(matches[n])) # <<>>}}

\* str.lower on the alphabet in use
Lower(c) == IF c = "X" THEN "x" ELSE IF c = "A" THEN "a" ELSE c

\* skip in col.lower()
HasSubstring(s, t) ==
    \E i \in 1..(Len(s) - Len(t) + 1) :
        [k \in 1..Len(t) |-> Lower(s[i + k - 1])] = t

\* the sentence fragments that disqualify a column name
skip_words ==
    { <<"ni", "tsu", "i", "te">>, <<"o", "negai", "i">>, <<"h_de", "h_su">>,
      <<"h_ma", "h_su">>, <<"h_shi", "h_ta">>, <<"h_ka", "h_ra">>,
      <<"chuu", "kokoro">>, <<"bi", "kangae">> }

extract_potential_columns(content) ==
    LET lines    == Split(content, "NL")
        tables   == NormalizedNames(TableHeaders(content, 1))
        headers  == UNION {NormalizedNames(HeaderMatches(Strip(lines[k]))) :
                              k \in 1..Len(lines)}
        body     == IF Strip(_extract_main_content(lines)) # <<>>
                    THEN {GENKOU} ELSE {}
        columns  == {BANGOU} \cup tables \cup headers \cup body
    IN  {col \in columns : ~\E skip \in skip_words : HasSubstring(col, skip)}

---------------------------------------------------------------------------
(* DocumentProcessor.convert_to_markdown *)

HEADING3 == <<"#", "#", "#", "SP">>       \* the prefix '### '

\* re.sub(r'LB(.+?)RB', r'### \1', content)
RECURSIVE BracketSub(_)
BracketSub(s) ==
    LET i == Find(s, "LB", 1)
        j == IF i = 0 THEN 0 ELSE Find(s, "RB", i + 2)
    IN  IF j = 0 THEN s
        ELSE SubSeq(s, 1, i - 1) \o HEADING3 \o SubSeq(s, i + 1, j - 1)
                 \o BracketSub(SubSeq(s, j + 1, Len(s)))

\* the non-empty stripped cells of one table line
NonEmptyCells(table_line) ==
    LET cells == Split(table_line, "|")
    IN  SelectSeq([k \in 1..Len(cells) |-> Strip(cells[k])], LAMBDA c : c # <<>>)

\* processed_lines: the cells of the buffered table lines, border lines left out
RECURSIVE FlattenTable(_)
FlattenTable(table_content) ==
    IF table_content = <<>> THEN <<>>
    ELSE (IF ~StartsWith(Head(table_content), <<"+", "-">>)
          THEN NonEmptyCells(Head(table_content)) ELSE <<>>)
         \o FlattenTable(Tail(table_content))

\* f'### {key.strip()}\n{value.strip()}' for key, value = line.split(FC, 1)
KeyValueHeading(line) ==
    LET c == Find(line, "FC", 1)
    IN  HEADING3 \o Strip(SubSeq(line, 1, c - 1)) \o <<"NL">>
            \o Strip(SubSeq(line, c + 1, Len(line)))

\* the body of the loop on the stripped line
MarkdownStepOn(st, line) ==
    IF IsTableLine(line)
    THEN [st EXCEPT !.in_table = TRUE,
                    !.table_content = Append(st.table_content, line)]
    ELSE IF st.in_table
    THEN [lines |-> st.lines \o FlattenTable(st.table_content),
          in_table |-> FALSE,
          table_content |-> <<>>]
    ELSE IF line # <<>>
    THEN [st EXCEPT !.lines = Append(st.lines,
                                  IF Contains(line, "FC")
                                  THEN KeyValueHeading(line) ELSE line)]
    ELSE st

\* one iteration of "for line in content.split('\n')" on the loop state st
MarkdownStep(st, raw) == MarkdownStepOn(st, Strip(raw))

RECURSIVE MarkdownLoop(_, _)
MarkdownLoop(st, raw_lines) ==
    IF raw_lines = <<>> THEN st
    ELSE MarkdownLoop(MarkdownStep(st, Head(raw_lines)), Tail(raw_lines))

\* convert_to_markdown on a str
\* the lines emitted, the last table block included
EmittedLines(st) == st.lines \o FlattenTable(st.table_content)

convert_to_markdown(content) ==
    Join(EmittedLines(MarkdownLoop([lines |-> <<>>, in_table |-> FALSE,
                                    table_content |-> <<>>],
                                   Split(BracketSub(clean_text(content)), "NL"))),
         <<"NL", "NL">>)

---------------------------------------------------------------------------
(* DocumentProcessor.extract_structure *)

\* The library calls markdown.markdown and BeautifulSoup.find_all on the markup
\* convert_to_markdown emits (lines of plain text, '#'-prefixed lines, blank
\* separator lines; no other Markdown syntax): a line that starts with '#' is a
\* heading of the level given by its leading '#' (at most 6), closing '#'
\* removed; the other lines of a block form one paragraph.

RECURSIVE LeadingHashes(_, _)
LeadingHashes(line, n) ==
    IF n < Len(line) /\ n < 6 /\ line[n + 1] = "#" THEN LeadingHashes(line, n + 1)
    ELSE n

RECURSIVE DropTrailingHashes(_)
DropTrailingHashes(s) ==
    IF s # <<>> /\ s[Len(s)] = "#" THEN DropTrailingHashes(SubSeq(s, 1, Len(s) - 1))
    ELSE s

HeadingElement(line) ==
    LET n == LeadingHashes(line, 0)
    IN  [name |-> <<"h", n>>,
         text |-> Strip(DropTrailingHashes(SubSeq(line, n + 1, Len(line))))]

\* the elements of the lines of the markup, para being the open paragraph
RECURSIVE MarkupElements(_, _)
MarkupElements(md_lines, para) ==
    LET close == IF para = <<>> THEN <<>>
                 ELSE <<[name |-> <<"p", 0>>, text |-> Strip(Join(para, <<"NL">>))]>>
    IN  IF md_lines = <<>> THEN close
        ELSE LET line == Head(md_lines)
             IN  IF Strip(line) = <<>>
                 THEN close \o MarkupElements(Tail(md_lines), <<>>)
                 ELSE IF line[1] = "#"
                 THEN close \o <<HeadingElement(line)>>
                          \o MarkupElements(Tail(md_lines), <<>>)
                 ELSE MarkupElements(Tail(md_lines), Append(para, line))

\* soup.find_all(['h1', 'h2', 'h3', 'p']) of markdown.markdown(markdown_content)
find_all(markdown_content) ==
    SelectSeq(MarkupElements(Split(markdown_content, "NL"), <<>>),
              LAMBDA e : e.name \in {<<"h", 1>>, <<"h", 2>>, <<"h", 3>>, <<"p", 0>>})

\* the structure before any element is read; current_section is the level and
\* index of the heading node last opened (level 0: None)
EmptyStructure ==
    [h |-> [l \in 1..3 |-> <<>>], text |-> <<>>, current_section |-> <<0, 0>>]

\* the loop body with the current heading kept once one has been opened
StructureStep_stale(st, element) ==
    IF element.name[1] = "h"
    THEN LET l == element.name[2]
         IN  [st EXCEPT !.h[l] = Append(@, [text |-> element.text, content |-> <<>>]),
                        !.current_section =
                            IF @[1] = 0 THEN <<l, Len(st.h[l]) + 1>> ELSE @]
    ELSE IF st.current_section[1] # 0
    THEN [st EXCEPT !.h[st.current_section[1]][st.current_section[2]].content =
                        Append(@, element.text)]
    ELSE [st EXCEPT !.text = Append(@, element.text)]

\* one iteration of the loop of extract_structure
StructureStep(st, element) ==
    IF element.name[1] = "h"
    THEN LET l == element.name[2]
         IN  [st EXCEPT !.h[l] = Append(@, [text |-> element.text, content |-> <<>>]),
                        !.current_section = <<l, Len(st.h[l]) + 1>>]
    ELSE IF st.current_section[1] # 0
    THEN [st EXCEPT !.h[st.current_section[1]][st.current_section[2]].content =
                        Append(@, element.text)]
    ELSE [st EXCEPT !.text = Append(@, element.text)]

RECURSIVE StructureLoop(_, _)
StructureLoop(st, elements) ==
    IF elements = <<>> THEN st
    ELSE StructureLoop(StructureStep(st, Head(elements)), Tail(elements))

extract_structure(markdown_content) ==
    StructureLoop(EmptyStructure, find_all(markdown_content))

---------------------------------------------------------------------------
(* MessageConverter.extract_content_for_column and validate_data *)

\* content.extend(item['content']) for the items of the list whose normalized
\* heading is the column
RECURSIVE MatchingContent(_, _)
MatchingContent(items, column) ==
    IF items = <<>> THEN <<>>
    ELSE (IF _normalize_column_name(Head(items).text) = column
          THEN Head(items).content ELSE <<>>)
         \o MatchingContent(Tail(items), column)

\* the result of extract_content_for_column from the joined content
ColumnResult(column, result) ==
    IF column = GENKOU THEN result
    ELSE IF column \in {BUSHO, NAMAE}
    THEN (IF result # <<>> THEN Words(result)[1] ELSE <<>>)
    ELSE result

\* the content list: what the headings gave, or for the body column with no
\* heading the body found in the top-level paragraphs
ColumnContent(structure, column, found) ==
    IF column = GENKOU /\ found = <<>>
    THEN <<_extract_main_content(structure.text)>>
    ELSE found

extract_content_for_column(structure, column) ==
    ColumnResult(column,
        Strip(Join(ColumnContent(structure, column,
                                 MatchingContent(structure.h[2], column)
                                     \o MatchingContent(structure.h[3], column)),
                   <<"SP">>)))

RuleMinLen == 150      \* validation_rules: 150 <= len(x)
RuleMaxLen == 200      \* validation_rules: len(x) <= 200

\* validation_rules[field](x)
RuleHolds(field, x) ==
    IF field = GENKOU
    THEN x # <<>> /\ RuleMinLen <= Len(x) /\ Len(x) <= RuleMaxLen
    ELSE x # <<>> /\ Strip(x) # <<>>

\* a dict as the sequence of its items in insertion order
DictHas(data, key) == \E k \in 1..Len(data) : data[k].key = key

DictGet(data, key) == data[CHOOSE k \in 1..Len(data) : data[k].key = key].val

\* data[key] = val
DictSet(data, key, val) ==
    IF DictHas(data, key)
    THEN [k \in 1..Len(data) |->
            IF data[k].key = key THEN [key |-> key, val |-> val] ELSE data[k]]
    ELSE Append(data, [key |-> key, val |-> val])

\* the messages validate_data returns, one per failing rule, in rule order
RECURSIVE ValidateFields(_, _)
ValidateFields(data, fields) ==
    IF fields = <<>> THEN <<>>
    ELSE (IF DictHas(data, Head(fields))
             /\ ~RuleHolds(Head(fields), DictGet(data, Head(fields)))
          THEN <<[field |-> Head(fields),
                  count |-> IF Head(fields) = GENKOU
                            THEN Len(DictGet(data, Head(fields))) ELSE 0]>>
          ELSE <<>>)
         \o ValidateFields(data, Tail(fields))

validate_data(data) == ValidateFields(data, <<GENKOU, NAMAE, BUSHO, KIKAKU>>)

---------------------------------------------------------------------------
(* MessageConverter.process_document *)

\* A document is [kind, content]: kind "str" with its text; "int" for a content
\* that is no str (text.strip() raises AttributeError, rethrown as ValueError);
\* "nokey" for a dict without 'document_content' (KeyError).
DocRaises(doc) == doc.kind \in {"int", "nokey"}

\* for column in self.selected_columns: if column not in data: data[column] = ...
RECURSIVE FillColumns(_, _, _)
FillColumns(data, structure, columns) ==
    IF columns = <<>> THEN data
    ELSE FillColumns(
             IF ~DictHas(data, Head(columns))
             THEN DictSet(data, Head(columns),
                          extract_content_for_column(structure, Head(columns)))
             ELSE data,
             structure, Tail(columns))

\* first or extract_content_for_column(structure, KIKAKU)
OrProject(first, structure) ==
    IF first # <<>> THEN first ELSE extract_content_for_column(structure, KIKAKU)

\* data after the project column, looked up under two names, is set
WithProject(data, structure, columns) ==
    IF \E k \in 1..Len(columns) : columns[k] = KIKAKU
    THEN DictSet(data, KIKAKU,
                 OrProject(extract_content_for_column(structure, KIKAKUMEI), structure))
    ELSE data

\* the dict data of process_document from the structure of the document
DataOf(structure, index, columns) ==
    FillColumns(WithProject(<<[key |-> BANGOU, val |-> index + 1]>>, structure, columns),
                structure, columns)

\* the dict data of process_document for a document that does not raise
BuildData(doc, index, columns) ==
    DataOf(extract_structure(convert_to_markdown(doc.content)), index, columns)

\* the entries appended for the messages of validate_data
ErrorEntries(msgs, index) ==
    [k \in 1..Len(msgs) |->
       [document_index |-> index, error_type |-> "validation",
        field |-> msgs[k].field, count |-> msgs[k].count]]

ValidationErrors(data, index) == ErrorEntries(validate_data(data), index)

\* what process_document returns and appends once data is built
Validated(data, index) ==
    [result |-> data, appended |-> ValidationErrors(data, index)]

\* what process_document returns and appends when a stage raised
Failed(index) ==
    [result |-> <<>>,
     appended |-> <<[document_index |-> index, error_type |-> "processing",
                     field |-> <<>>, count |-> 0]>>]

\* process_document with the identifier seeded by index instead of index + 1
process_document_index(doc, index, columns) ==
    IF DocRaises(doc) THEN Failed(index)
    ELSE Validated(BuildData(doc, index - 1, columns), index)

\* process_document: the record it returns (<<>> stands for None) and the
\* entries it appends to self.processor.errors
process_document(doc, index, columns) ==
    IF DocRaises(doc) THEN Failed(index)
    ELSE Validated(BuildData(doc, index, columns), index)

---------------------------------------------------------------------------
(* MessageConverter.process_documents, one step per statement that touches   *)
(* the shared error list                                                     *)

Callers == {1, 2}

\* The heap of error lists.  A reference is 1, 2 or 3 (0: no list); at most
\* three lists are alive: the one self.processor.errors names and the one
\* each caller holds after its call returned.
ListRefs == 1..3

\* the state of a MessageConverter after __init__, with no call under way
Constructed ==
    /\ selected_columns = "None"
    /\ errors = 1
    /\ lists = [r \in ListRefs |-> <<>>]
    /\ documents = [t \in Callers |-> <<>>]
    /\ idx = [t \in Callers |-> 0]
    /\ processed_docs = [t \in Callers |-> <<>>]
    /\ ret = [t \in Callers |-> [df |-> <<>>, errors |-> 0]]
    /\ own = [t \in Callers |-> <<>>]
    /\ overlapped = [t \in Callers |-> FALSE]
    /\ earlier = FALSE

\* the references some caller still holds from a call that returned
HeldRefs == {ret[t].errors : t \in {u \in Callers : pc[u] = "done"}}

\* the reset left out: the list of the earlier call stays in use
ResetErrors_none == [errors |-> errors, lists |-> lists]

\* the reset done in place (errors.clear()): the same list object, emptied
ResetErrors_inplace ==
    [errors |-> errors, lists |-> [lists EXCEPT ![errors] = <<>>]]

\* self.processor.errors = []: the reference of the new empty list and the heap
\* with it; a list nothing refers to any more is dropped from the heap
ResetErrors ==
    LET new == CHOOSE r \in ListRefs \ HeldRefs :
                   \A q \in ListRefs \ HeldRefs : r <= q
    IN  [errors |-> new,
         lists  |-> [r \in ListRefs |-> IF r \in HeldRefs THEN lists[r] ELSE <<>>]]

\* pd.DataFrame(processed_docs), or pd.DataFrame() when the list is empty:
\* the rows of the frame, one per record, in list order
DataFrame(records) == IF records = <<>> THEN <<>> ELSE records

\* app.py sets selected_columns and calls process_documents(docs), which
\* starts by emptying processed_docs and resetting the error list
Begin(t, docs, columns) ==
    /\ pc[t] = "idle"
    /\ selected_columns' = columns
    /\ documents' = [documents EXCEPT ![t] = docs]
    /\ processed_docs' = [processed_docs EXCEPT ![t] = <<>>]
    /\ idx' = [idx EXCEPT ![t] = 0]
    /\ errors' = ResetErrors.errors
    /\ lists' = ResetErrors.lists
    /\ own' = [own EXCEPT ![t] = <<>>]
    /\ overlapped' = [u \in Callers |->
                        IF u = t THEN \E v \in Callers \ {t} : pc[v] = "loop"
                        ELSE overlapped[u] \/ pc[u] = "loop"]
    /\ pc' = [pc EXCEPT ![t] = "loop"]
    /\ UNCHANGED <<ret, earlier, fvars>>

\* the effect of one call of process_document, r, on the lists
Processed(t, r) ==
    /\ lists' = [lists EXCEPT ![errors] = @ \o r.appended]
    /\ own' = [own EXCEPT ![t] = @ \o r.appended]
    /\ processed_docs' =
           [processed_docs EXCEPT ![t] =
               IF r.result # <<>> THEN Append(@, r.result) ELSE @]

\* one iteration of "for idx, doc in enumerate(documents)"
Step(t) ==
    /\ pc[t] = "loop"
    /\ idx[t] < Len(documents[t])
    /\ Processed(t, process_document(documents[t][idx[t] + 1], idx[t],
                                     selected_columns))
    /\ idx' = [idx EXCEPT ![t] = @ + 1]
    /\ overlapped' = [u \in Callers |->
                        IF u = t THEN overlapped[u]
                        ELSE overlapped[u] \/ pc[u] = "loop"]
    /\ UNCHANGED <<selected_columns, errors, pc, documents, ret, earlier, fvars>>

\* the loop is over: return df, self.processor.errors
Return(t) ==
    /\ pc[t] = "loop"
    /\ idx[t] = Len(documents[t])
    /\ ret' = [ret EXCEPT ![t] = [df |-> DataFrame(processed_docs[t]),
                                  errors |-> errors]]
    /\ pc' = [pc EXCEPT ![t] = "done"]
    /\ UNCHANGED <<selected_columns, errors, lists, documents, idx,
                   processed_docs, own, overlapped, earlier, fvars>>

\* app.py has displayed the result of the call and lets go of it
Collect(t) ==
    /\ pc[t] = "done"
    /\ earlier' = (earlier \/ lists[ret[t].errors] # <<>>)
    /\ ret' = [ret EXCEPT ![t] = [df |-> <<>>, errors |-> 0]]
    /\ documents' = [documents EXCEPT ![t] = <<>>]
    /\ processed_docs' = [processed_docs EXCEPT ![t] = <<>>]
    /\ idx' = [idx EXCEPT ![t] = 0]
    /\ own' = [own EXCEPT ![t] = <<>>]
    /\ pc' = [pc EXCEPT ![t] = "idle"]
    /\ UNCHANGED <<selected_columns, errors, lists, overlapped, fvars>>

---------------------------------------------------------------------------
(* Canonicalization applied once and then again to its own result *)

MaxPieces == 2

NamePieces ==
    { BUSHO, <<"o">>, <<"sqB">>, <<"ran">>, <<"FC">>, <<"no", "nai", "you">>,
      <<"jo", "zoku">>, SHIMEKIRI \o <<"hi">>, KIKAKUMEI, <<"shi", "mei">>,
      NAMAE, <<"x">>, <<"SP">> }

RECURSIVE PieceStrings(_)
PieceStrings(n) ==
    IF n = 0 THEN {<<>>}
    ELSE LET shorter == PieceStrings(n - 1)
         IN  shorter \cup {s \o p : s \in shorter, p \in NamePieces}

InitCanon ==
    /\ arg \in PieceStrings(MaxPieces)
    /\ res = <<>>
    /\ stage = "in"
    /\ pc = [t \in Callers |-> "off"]
    /\ Constructed

CanonOnce ==
    /\ stage = "in"
    /\ res' = <<_normalize_column_name(arg)>>
    /\ stage' = "once"
    /\ UNCHANGED <<arg, bvars>>

CanonTwice ==
    /\ stage = "once"
    /\ res' = Append(res, _normalize_column_name(res[1]))
    /\ stage' = "twice"
    /\ UNCHANGED <<arg, bvars>>

NextCanon == CanonOnce \/ CanonTwice

SpecCanon == InitCanon /\ [][NextCanon]_vars

\* C3: canonicalizing a canonicalized name returns it unchanged, for every name.
C3_Idempotent == stage = "twice" => res[2] = res[1]

---------------------------------------------------------------------------
(* BodyContentExtractor applied to a list of paragraph lines *)

MaxParas == 3

BodyLines ==
    { <<>>,
      Repeat(<<"c">>, 5),
      Repeat(<<"a">>, 10),
      Repeat(<<"a">>, 19),
      Repeat(<<"b">>, 20),
      Repeat(<<"1">>, 25),
      <<"-", "-", "-">>,
      <<"x", "|">> \o Repeat(<<"d">>, 25),
      Repeat(<<"e">>, 149),
      Repeat(<<"f">>, 150),
      Repeat(<<"g">>, 200),
      Repeat(<<"h">>, 201) }

RECURSIVE LineLists(_)
LineLists(n) ==
    IF n = 0 THEN {<<>>}
    ELSE LET shorter == LineLists(n - 1)
         IN  shorter \cup {Append(l, x) : l \in shorter, x \in BodyLines}

InitBody ==
    /\ arg \in LineLists(MaxParas)
    /\ res = <<>>
    /\ stage = "in"
    /\ pc = [t \in Callers |-> "off"]
    /\ Constructed

\* the candidates, the chunk chosen among them and the value returned
BodyResult(chunks, out) ==
    [chunks |-> chunks,
     main |-> IF chunks = <<>> THEN <<>> ELSE main_content(chunks),
     out |-> out]

ExtractBody ==
    /\ stage = "in"
    /\ res' = <<BodyResult(all_text_chunks(arg), _extract_main_content(arg))>>
    /\ stage' = "once"
    /\ UNCHANGED <<arg, bvars>>

NextBody == ExtractBody

SpecBody == InitBody /\ [][NextBody]_vars

\* the lines i..j of the list, stripped and joined by single spaces
JoinedRun(lines, i, j) ==
    Join([k \in 1..(j - i + 1) |-> Strip(lines[i + k - 1])], <<"SP">>)

\* lines i..j are consecutive lines that are neither blank nor table lines
IsTextRun(lines, i, j) ==
    \A k \in i..j : Strip(lines[k]) # <<>> /\ ~IsTableLine(Strip(lines[k]))

\* no run of consecutive text lines, joined, and no table cell has 20 characters
AllRunsShort(lines) ==
    /\ \A i \in 1..Len(lines) : \A j \in i..Len(lines) :
           IsTextRun(lines, i, j) => Len(JoinedRun(lines, i, j)) < 20
    /\ \A i \in 1..Len(lines) :
           IsTableLine(Strip(lines[i])) =>
               LET cells == Split(Strip(lines[i]), "|")
               IN  \A k \in 1..Len(cells) : Len(Strip(cells[k])) < 20

\* C5 (as claimed): when no single line has 20 or more characters, the
\* extracted body is the empty string, however many short lines follow one
\* another.
C5_ShortLinesEmpty ==
    (stage = "once" /\ \A i \in 1..Len(arg) : Len(arg[i]) < 20)
        => res[1].out = <<>>

\* C5 (amended): when no run of consecutive non-blank, non-table lines, joined
\* by single spaces, has 20 or more characters, and no table cell has 20 or
\* more characters, the extracted body is the empty string.
C5_ShortRunsEmpty ==
    (stage = "once" /\ AllRunsShort(arg)) => res[1].out = <<>>

\* two consecutive short text lines whose joined run stays under 20 characters
C5_Witness ==
    /\ stage = "once"
    /\ Len(arg) >= 2
    /\ IsTextRun(arg, 1, 2)
    /\ AllRunsShort(arg)
    /\ res[1].out = <<>>

\* C6: the extracted body is empty, or the chosen chunk unchanged with a length
\* in 150..200, or the chosen chunk followed by the needs-more marker when it
\* is shorter than 150, or the first 200 characters of the chosen chunk
\* followed by the exceeds marker when it is longer than 200.
C6_AnnotatedShape ==
    stage = "once" =>
        LET out  == res[1].out
            main == res[1].main
        IN  \/ out = <<>> /\ res[1].chunks = <<>>
            \/ /\ res[1].chunks # <<>>
               /\ \/ Len(main) >= 150 /\ Len(main) <= 200 /\ out = main
                  \/ Len(main) < 150 /\ out = main \o NEEDS_MORE
                  \/ Len(main) > 200 /\ out = SubSeq(main, 1, 200) \o EXCEEDS

\* a chunk longer than 200 characters was chosen and cut to its first 200
C6_Witness ==
    /\ stage = "once"
    /\ res[1].chunks # <<>>
    /\ Len(res[1].main) > 200
    /\ Len(res[1].out) = 207
    /\ EndsWith(res[1].out, EXCEEDS)

\* C12: among the candidate chunks that survive filtering, the chunk selected
\* as the body has the greatest length, and every chunk met before it in the
\* input is strictly shorter (of several longest chunks the first is selected).
C12_FirstLongestSelected ==
    (stage = "once" /\ res[1].chunks # <<>>) =>
        LET chunks == res[1].chunks
        IN  \E i \in 1..Len(chunks) :
               /\ res[1].main = chunks[i]
               /\ \A j \in 1..Len(chunks) : Len(chunks[j]) <= Len(chunks[i])
               /\ \A j \in 1..(i - 1) : Len(chunks[j]) < Len(chunks[i])

\* two different chunks share the greatest length and the first was selected
C12_Witness ==
    /\ stage = "once"
    /\ Len(res[1].chunks) >= 2
    /\ \E i, j \in 1..Len(res[1].chunks) :
           /\ i < j
           /\ res[1].chunks[i] # res[1].chunks[j]
           /\ Len(res[1].chunks[i]) = Len(res[1].chunks[j])
           /\ \A k \in 1..Len(res[1].chunks) :
                  Len(res[1].chunks[k]) <= Len(res[1].chunks[i])
           /\ res[1].main = res[1].chunks[i]

---------------------------------------------------------------------------
(* ColumnDiscovery applied to a raw text *)

MaxDiscLines == 2

DiscLines ==
    { SHIMEKIRI \o <<"hi", "FC", "4", "/", "1">>,            \* deadline-day FC 4/1
      NAMAE \o <<"FC", "ta", "naka">>,                        \* name FC Tanaka
      <<"ji", "kan", "FC", "1", "0", ":", "0", "0">>,         \* time FC 10:00
      <<"sqB">> \o <<"jo", "zoku">> \o <<"FC", "x">>,         \* corner mark, key, FC
      <<"LB">> \o NAMAE \o <<"RB">>,                          \* bracketed heading
      <<"|", "SP">> \o KIKAKUMEI \o <<"FC", "x", "|">>,       \* table cell key FC
      <<"x", "x">>,
      Repeat(<<"a">>, 25),
      <<"X", "o", "negai", "i", "FC", "x">>,                  \* prose ending in a request
      <<"sqW", "SP", "FC", "x">> }

RECURSIVE DiscTexts(_)
DiscTexts(n) ==
    IF n = 0 THEN {<<>>}
    ELSE LET shorter == DiscTexts(n - 1)
         IN  shorter \cup DiscLines
                 \cup {t \o <<"NL">> \o l : t \in shorter \ {<<>>}, l \in DiscLines}

InitDiscover ==
    /\ arg \in DiscTexts(MaxDiscLines)
    /\ res = <<>>
    /\ stage = "in"
    /\ pc = [t \in Callers |-> "off"]
    /\ Constructed

Discover ==
    /\ stage = "in"
    /\ res' = <<extract_potential_columns(arg)>>
    /\ stage' = "once"
    /\ UNCHANGED <<arg, bvars>>

NextDiscover == Discover

SpecDiscover == InitDiscover /\ [][NextDiscover]_vars

\* a line 'key FC value' with no table separator, bracket or corner mark, a
\* non-empty key and a value that is not a clock time (digits ':' digits)
IsClockTime(v) ==
    \E c \in 2..(Len(v) - 1) :
        /\ v[c] \in {":", "FC"}
        /\ \A k \in 1..Len(v) : k # c => IsDigit(v[k])

IsPlainKeyValue(line) ==
    /\ Contains(line, "FC")
    /\ \A k \in 1..Len(line) : line[k] \notin {"|", "LB", "RB", "sqB", "sqW", "cirB"}
    /\ LET c == Find(line, "FC", 1)
       IN  /\ Strip(SubSeq(line, 1, c - 1)) # <<>>
           /\ ~IsClockTime(Strip(SubSeq(line, c + 1, Len(line))))

KeyOf(line) == Strip(SubSeq(line, 1, Find(line, "FC", 1) - 1))

\* C8: the discovered set holds the identifier column and, for every plain
\* 'key FC value' line whose value is not a clock time, the canonicalized key.
C8_KeyValueDiscovered ==
    stage = "once" =>
        /\ BANGOU \in res[1]
        /\ LET lines == Split(arg, "NL")
           IN  \A k \in 1..Len(lines) :
                   IsPlainKeyValue(lines[k]) =>
                       _normalize_column_name(KeyOf(lines[k])) \in res[1]

---------------------------------------------------------------------------
(* extract_structure read one element at a time on a Markdown text *)

MaxBlocks == 4

\* blocks of the Markdown text: headings of the levels 1 to 4, two of them
\* with the same text, and two paragraphs
StructBlocks ==
    { <<"#", "SP", "A">>,
      <<"#", "#", "SP", "B">>,
      <<"#", "#", "#", "SP", "A">>,
      <<"#", "#", "#", "#", "SP", "D">>,
      <<"p">>,
      <<"q">> }

RECURSIVE BlockLists(_)
BlockLists(n) ==
    IF n = 0 THEN {<<>>}
    ELSE LET shorter == BlockLists(n - 1)
         IN  shorter \cup {Append(l, x) : l \in shorter, x \in StructBlocks}

InitStruct ==
    /\ arg \in {Join(bl, <<"NL", "NL">>) : bl \in BlockLists(MaxBlocks)}
    /\ res = <<>>
    /\ stage = "in"
    /\ pc = [t \in Callers |-> "off"]
    /\ Constructed

\* the empty structure and current_section = None; res holds the structure
\* and the number of elements read
OpenStructure ==
    /\ stage = "in"
    /\ res' = <<EmptyStructure, 0>>
    /\ stage' = "loop"
    /\ UNCHANGED <<arg, bvars>>

\* one iteration of "for element in soup.find_all(...)"
ReadElement ==
    /\ stage = "loop"
    /\ res[2] < Len(find_all(arg))
    /\ res' = <<StructureStep(res[1], find_all(arg)[res[2] + 1]), res[2] + 1>>
    /\ UNCHANGED <<arg, stage, bvars>>

\* return structure
ReturnStructure ==
    /\ stage = "loop"
    /\ res[2] = Len(find_all(arg))
    /\ res' = <<extract_structure(arg), res[2]>>
    /\ stage' = "once"
    /\ UNCHANGED <<arg, bvars>>

NextStruct == OpenStructure \/ ReadElement \/ ReturnStructure

SpecStruct == InitStruct /\ [][NextStruct]_vars

\* the elements read so far
SeenElements == SubSeq(find_all(arg), 1, res[2])

IsHeadingElement(e) == e.name[1] = "h"

\* the position of the heading opened last before position j, 0 when none
OpenHeading(els, j) ==
    LET hs == {i \in 1..(j - 1) : IsHeadingElement(els[i])}
    IN  IF hs = {} THEN 0 ELSE CHOOSE i \in hs : \A q \in hs : q <= i

\* the texts, in input order, of the paragraphs read while the heading at
\* position i (0: no heading) was the heading opened last
ParagraphsUnder(els, i) ==
    LET at == SelectSeq([j \in 1..Len(els) |-> j],
                        LAMBDA j : ~IsHeadingElement(els[j]) /\ OpenHeading(els, j) = i)
    IN  [n \in 1..Len(at) |-> els[at[n]].text]

\* the positions, in input order, of the headings of level l
HeadingsOfLevel(els, l) ==
    SelectSeq([j \in 1..Len(els) |-> j], LAMBDA j : els[j].name = <<"h", l>>)

\* C11: after any prefix of the elements, the top-level list holds, in input
\* order, exactly the paragraphs read before any heading was opened, and the
\* content list of each heading node of level 1 to 3 holds, in input order,
\* exactly the paragraphs read while that heading was the heading opened last.
C11_SequentialAttachment ==
    stage \in {"loop", "once"} =>
        LET els == SeenElements
            st  == res[1]
        IN  /\ st.text = ParagraphsUnder(els, 0)
            /\ \A l \in 1..3 :
                   LET hl == HeadingsOfLevel(els, l)
                   IN  /\ Len(st.h[l]) = Len(hl)
                       /\ \A n \in 1..Len(hl) :
                              /\ st.h[l][n].text = els[hl[n]].text
                              /\ st.h[l][n].content = ParagraphsUnder(els, hl[n])

\* a level-3 heading, a paragraph, a level-1 heading and a second paragraph
\* were read: the second paragraph is under the level-1 heading only
C11_Witness ==
    /\ stage = "loop"
    /\ res[2] = 4
    /\ SeenElements[1].name = <<"h", 3>>
    /\ SeenElements[3].name = <<"h", 1>>
    /\ res[1].h[3][1].content = << <<"p">> >>
    /\ res[1].h[1][1].content = << <<"q">> >>

---------------------------------------------------------------------------
(* One caller running process_documents again and again on one converter *)

MaxDocs == 3

SHORT_BODY == Repeat(<<"a">>, 10)

DocSet ==
    { [kind |-> "int", content |-> <<>>],
      [kind |-> "nokey", content |-> <<>>],
      \* LB name RB / Tanaka / LB body RB / a short body
      [kind |-> "str",
       content |-> <<"LB">> \o NAMAE \o <<"RB", "NL", "ta", "naka", "NL", "LB">>
                       \o GENKOU \o <<"RB", "NL">> \o SHORT_BODY],
      \* name FC Tanaka Tarou
      [kind |-> "str", content |-> NAMAE \o <<"FC", "ta", "naka", "SP", "tai", "rou">>],
      [kind |-> "str", content |-> Repeat(<<"a">>, 145)],
      [kind |-> "str", content |-> SHORT_BODY] }

ColumnLists ==
    { <<GENKOU>>, <<NAMAE, GENKOU>>, <<NAMAE, KIKAKU>>, <<BANGOU, NAMAE>> }

RECURSIVE Batches(_, _)
Batches(docs, n) ==
    IF n = 0 THEN {<<>>}
    ELSE LET shorter == Batches(docs, n - 1)
         IN  shorter \cup {Append(b, d) : b \in shorter, d \in docs}

Init ==
    /\ arg = <<>>
    /\ res = <<>>
    /\ stage = "off"
    /\ pc = [t \in Callers |-> IF t = 1 THEN "idle" ELSE "off"]
    /\ Constructed

Next ==
    \/ \E docs \in Batches(DocSet, MaxDocs), columns \in ColumnLists :
           Begin(1, docs, columns)
    \/ Step(1)
    \/ Return(1)
    \/ Collect(1)

Spec == Init /\ [][Next]_vars

\* what the single caller holds when its call has returned
Returned == pc[1] = "done"

ReturnedErrors(t) == lists[ret[t].errors]

\* the positions (1-based) of the documents of a batch that do not raise
NonRaising(docs) ==
    SelectSeq([i \in 1..Len(docs) |-> i], LAMBDA i : ~DocRaises(docs[i]))

ProcessingEntries(errs, index) ==
    {k \in 1..Len(errs) : /\ errs[k].document_index = index
                          /\ errs[k].error_type = "processing"}

RecordsWithId(df, id) ==
    {k \in 1..Len(df) : df[k][1].key = BANGOU /\ df[k][1].val = id}

\* C1: a document that raises gives no record and exactly one processing entry
\* with its index; every other document gives exactly one record whose
\* identifier is its index + 1; the records are in input order, and documents
\* after a failing one are still processed.
C1_FailuresContained ==
    Returned =>
        LET docs == documents[1]
            df   == ret[1].df
            errs == ReturnedErrors(1)
            good == NonRaising(docs)
        IN  /\ Len(df) = Len(good)
            /\ \A k \in 1..Len(df) :
                   df[k][1].key = BANGOU /\ df[k][1].val = good[k]
            /\ \A i \in 1..Len(docs) :
                   IF DocRaises(docs[i])
                   THEN /\ Cardinality(ProcessingEntries(errs, i - 1)) = 1
                        /\ RecordsWithId(df, i) = {}
                   ELSE /\ ProcessingEntries(errs, i - 1) = {}
                        /\ Cardinality(RecordsWithId(df, i)) = 1

\* three documents, the middle one raising: records 1 and 3, one entry for index 1
C1_Witness ==
    /\ Returned
    /\ Len(documents[1]) = 3
    /\ ~DocRaises(documents[1][1])
    /\ DocRaises(documents[1][2])
    /\ ~DocRaises(documents[1][3])
    /\ Len(ret[1].df) = 2
    /\ ret[1].df[1][1].val = 1
    /\ ret[1].df[2][1].val = 3
    /\ Cardinality(ProcessingEntries(ReturnedErrors(1), 1)) = 1

\* C2: the error list a call returns holds exactly the entries that call
\* appended, none of an earlier call; a call on the empty batch returns no
\* record and no error.
C2_ErrorsOfThisRunOnly ==
    Returned =>
        /\ ReturnedErrors(1) = own[1]
        /\ documents[1] = <<>> => (ret[1].df = <<>> /\ ReturnedErrors(1) = <<>>)

\* the empty batch after an earlier call that recorded errors
C2_Witness ==
    /\ Returned
    /\ earlier
    /\ documents[1] = <<>>
    /\ ret[1].df = <<>>
    /\ ReturnedErrors(1) = <<>>

\* a line that is one bracketed heading, and the name in it
IsHeadingLine(l) ==
    /\ Len(l) >= 3
    /\ l[1] = "LB"
    /\ l[Len(l)] = "RB"
    /\ \A k \in 2..(Len(l) - 1) : l[k] \notin {"LB", "RB"}

HeadingName(l) == _normalize_column_name(SubSeq(l, 2, Len(l) - 1))

\* a line of plain text: no heading, key/value or table syntax
IsParagraphLine(l) ==
    /\ Strip(l) # <<>>
    /\ \A k \in 1..Len(l) : l[k] \notin {"LB", "RB", "FC", ":", "|", "#", "+", "-"}

\* line k is a heading, line k + 1 its only paragraph, and no other heading of
\* the text has the same canonical name
IsSectionAt(lines, k) ==
    /\ k + 1 <= Len(lines)
    /\ IsHeadingLine(lines[k])
    /\ IsParagraphLine(lines[k + 1])
    /\ k + 2 <= Len(lines) => IsHeadingLine(lines[k + 2])
    /\ \A j \in 1..Len(lines) :
           (j # k /\ IsHeadingLine(lines[j])) =>
               HeadingName(lines[j]) # HeadingName(lines[k])

\* C4: for a text with a bracketed heading line followed by a paragraph line,
\* the value extracted for the canonicalized heading name is the normalized
\* text of that paragraph.
C4_SectionRoundTrip ==
    Returned =>
        \A r \in 1..Len(ret[1].df) :
            LET doc   == documents[1][ret[1].df[r][1].val]
                lines == Split(doc.content, "NL")
            IN  \A k \in 1..Len(lines) :
                    (/\ doc.kind = "str"
                     /\ IsSectionAt(lines, k)
                     /\ HeadingName(lines[k]) \notin {BANGOU, KIKAKU}
                     /\ DictHas(ret[1].df[r], HeadingName(lines[k])))
                    => DictGet(ret[1].df[r], HeadingName(lines[k]))
                           = clean_text(lines[k + 1])

\* C7: when the body value of a record carries an annotation marker (its chunk
\* was shorter than 150 or longer than 200), the returned error list holds a
\* validation entry of the body rule for that document, and the record keeps
\* the annotated value.
C7_AnnotatedBodyFlagged ==
    Returned =>
        \A r \in 1..Len(ret[1].df) :
            (/\ DictHas(ret[1].df[r], GENKOU)
             /\ \/ EndsWith(DictGet(ret[1].df[r], GENKOU), NEEDS_MORE)
                \/ EndsWith(DictGet(ret[1].df[r], GENKOU), EXCEEDS))
            => \E e \in 1..Len(ReturnedErrors(1)) :
                   /\ ReturnedErrors(1)[e].document_index = ret[1].df[r][1].val - 1
                   /\ ReturnedErrors(1)[e].error_type = "validation"
                   /\ ReturnedErrors(1)[e].field = GENKOU

\* the columns of a list without the identifier column, each at its first place
RECURSIVE OtherColumns(_, _)
OtherColumns(columns, seen) ==
    IF columns = <<>> THEN <<>>
    ELSE IF Head(columns) \in seen THEN OtherColumns(Tail(columns), seen)
    ELSE <<Head(columns)>> \o OtherColumns(Tail(columns), seen \cup {Head(columns)})

\* C10: every record has the identifier field first, with the value index + 1,
\* followed by the other selected columns in the order the caller gave them.
C10_CallerOrder ==
    Returned =>
        \A r \in 1..Len(ret[1].df) :
            /\ [k \in 1..Len(ret[1].df[r]) |-> ret[1].df[r][k].key]
                   = <<BANGOU>> \o OtherColumns(selected_columns, {BANGOU})
            /\ ret[1].df[r][1].val = NonRaising(documents[1])[r]

---------------------------------------------------------------------------
(* Two callers running process_documents on one converter at the same time *)

MaxConcDocs == 1

ConcDocSet ==
    { [kind |-> "int", content |-> <<>>],
      [kind |-> "str", content |-> NAMAE \o <<"FC", "ta", "naka", "SP", "tai", "rou">>],
      [kind |-> "str", content |-> SHORT_BODY] }

InitConc ==
    /\ arg = <<>>
    /\ res = <<>>
    /\ stage = "off"
    /\ pc = [t \in Callers |-> "idle"]
    /\ Constructed

NextConc ==
    \E t \in Callers :
        \/ \E docs \in Batches(ConcDocSet, MaxConcDocs), columns \in ColumnLists :
               Begin(t, docs, columns)
        \/ Step(t)
        \/ Return(t)

SpecConc == InitConc /\ [][NextConc]_vars

\* C9: a call that no other call overlapped returns exactly the entries it
\* appended (the loss of entries needs an overlap, reached in C9_Witness).
C9_SerializedOwnErrors ==
    \A t \in Callers :
        (pc[t] = "done" /\ ~overlapped[t]) => ReturnedErrors(t) = own[t]

\* two overlapping calls: the reset of the other call made an entry this call
\* appended absent from the list this call returned
C9_Witness ==
    \E t \in Callers :
        /\ pc[t] = "done"
        /\ overlapped[t]
        /\ \E k \in 1..Len(own[t]) :
               \A e \in 1..Len(ReturnedErrors(t)) : ReturnedErrors(t)[e] # own[t][k]

=============================================================================
